---- MODULE Spec2Model ----
(***************************************************************************)
(* The like button of react-like-button: the useLikeButton hook (click     *)
(* count, derived disabled state, particle bursts and their removal        *)
(* timers) and the particle configuration resolver it calls.               *)
(*                                                                         *)
(* Conventions.  An optional value (a prop that may be absent) is <<>>     *)
(* when undefined and <<v>> when supplied.  Math.random() is a generator   *)
(* of period RandDen: it returns rng / RandDen and steps rng, so that its  *)
(* draws run through 0, 1 / RandDen, ..., (RandDen - 1) / RandDen; every   *)
(* quantity computed from a draw (angle, distance, scale)                  *)
(* is kept as the numerator over RandDen so that it stays an integer.      *)
(* Sizes are in tenths.                                                    *)
(***************************************************************************)
EXTENDS Integers, Sequences, FiniteSets, TLC

\* ------------------------------------------------------------------ bounds
MaxMaxClicks == 2        \* the maxClicks option, when supplied, is in 2..MaxMaxClicks
MaxAccepted == 2         \* accepted clicks per run
MaxDegree == 800         \* normalizeAngle is applied to the degrees -MaxDegree..MaxDegree
MaxTicks == 1            \* clock advances per run, beyond those a pending timeout waits for
RandDen == 3             \* Math.random() draws are n / RandDen

\* --------------------------------------------------------- program constants
PARTICLE_CLEANUP_BUFFER_MS == 100
MAX_FILL_HEIGHT == 85
LIKE_BUTTON_DEFAULTS == [maxClicks |-> 1, size |-> 96]

\* the clock of the model advances in steps of this many milliseconds
TimeStep == 5 * PARTICLE_CLEANUP_BUFFER_MS

\* ------------------------------------------------------------ optional values
Undefined == <<>>
Some(v) == <<v>>
\* a ?? b
Coalesce(opt, dflt) == IF opt = Undefined THEN dflt ELSE opt[1]

\* ------------------------------------------------------- number-or-range
Num(v) == [type |-> "number", value |-> v]
Range(lo, hi) == [type |-> "range", min |-> lo, max |-> hi]

\* ------------------------------------------------------------ config objects
\* A Partial<ParticleConfig> object: values holds the own keys that have a value,
\* undef the own keys whose value is undefined.  Reading a key of undef, like
\* reading a key the object lacks, yields undefined.
Object(values, undef) == [values |-> values, undef |-> undef]

\* ------------------------------------------------------------------ presets
DEFAULT_PARTICLE_CONFIG ==
  [shape |-> "heart", speed |-> 500, distance |-> Range(60, 100), spread |-> 360,
   spreadOffset |-> 0, size |-> Range(10, 15),
   colors |-> <<"#EF4444", "#B9FF14", "#3B82F6">>, count |-> 8,
   easing |-> "cubic-bezier(0.22, 1, 0.36, 1)", fadeOut |-> TRUE]

PARTICLE_PRESETS ==
  [burst |->
     [shape |-> "heart", speed |-> 400, distance |-> Range(80, 120), spread |-> 360,
      spreadOffset |-> 0, size |-> Range(10, 15),
      colors |-> <<"#EF4444", "#F59E0B", "#3B82F6">>, count |-> 12,
      easing |-> "cubic-bezier(0.22, 1, 0.36, 1)", fadeOut |-> TRUE],
   fountain |->
     [shape |-> "circle", speed |-> 600, distance |-> Range(60, 100), spread |-> 120,
      spreadOffset |-> -90, size |-> Range(8, 12),
      colors |-> <<"#3B82F6", "#8B5CF6", "#EC4899">>, count |-> 10,
      easing |-> "cubic-bezier(0.22, 1, 0.36, 1)", fadeOut |-> TRUE],
   confetti |->
     [shape |-> "square", speed |-> 800, distance |-> Range(70, 110), spread |-> 360,
      spreadOffset |-> 0, size |-> Range(6, 14),
      colors |-> <<"#EF4444", "#F59E0B", "#10B981", "#3B82F6", "#8B5CF6", "#EC4899">>,
      count |-> 15, easing |-> "ease-out", fadeOut |-> TRUE],
   gentle |->
     [shape |-> "heart", speed |-> 700, distance |-> Range(40, 60), spread |-> 180,
      spreadOffset |-> -90, size |-> Range(8, 10),
      colors |-> <<"#EF4444", "#F87171">>, count |-> 6,
      easing |-> "ease-in-out", fadeOut |-> TRUE],
   fireworks |->
     [shape |-> "sparkle", speed |-> 500, distance |-> Range(100, 150), spread |-> 360,
      spreadOffset |-> 0, size |-> Range(12, 20),
      colors |-> <<"#FBBF24", "#F59E0B", "#EF4444", "#EC4899">>, count |-> 16,
      easing |-> "cubic-bezier(0.22, 1, 0.36, 1)", fadeOut |-> TRUE]]

\* PARTICLE_PRESETS[preset]: undefined for a name that is not a key
\* mutant: a name the table lacks yields the burst preset
getParticlePreset_FallbackBurst(preset) ==
  IF preset \in DOMAIN PARTICLE_PRESETS
  THEN Some(Object(PARTICLE_PRESETS[preset], {}))
  ELSE Some(Object(PARTICLE_PRESETS.burst, {}))
\* mutant: every name yields the burst preset
getParticlePreset_AlwaysBurst(preset) == Some(Object(PARTICLE_PRESETS.burst, {}))
getParticlePreset(preset) ==
  IF preset \in DOMAIN PARTICLE_PRESETS
  THEN Some(Object(PARTICLE_PRESETS[preset], {}))
  ELSE Undefined

\* ----------------------------------------------------------------- utilities
normalizeRange(value) ==
  IF value.type = "number" THEN [min |-> value.value, max |-> value.value]
  ELSE [min |-> value.min, max |-> value.max]

\* mutant: the draw is scaled by max, not by the width of the range
randomInRange_ScaledByMax(range, draw) == range.min * RandDen + draw * range.max
\* range.min + Math.random() * (range.max - range.min), times RandDen
randomInRange(range, draw) == range.min * RandDen + draw * (range.max - range.min)

\* the % of the language: the result takes the sign of the dividend
JsRem(a, m) == IF a >= 0 THEN a % m ELSE -((-a) % m)

\* one full turn, in units of 1 / RandDen degree
FullTurn == 360 * RandDen

\* mutant: a negative remainder is returned as it is
normalizeAngle_NoWrap(angle) == JsRem(angle, FullTurn)
\* angle in units of 1 / RandDen degree
normalizeAngle(angle) ==
  LET normalized == JsRem(angle, FullTurn)
      result == IF normalized < 0 THEN normalized + FullTurn ELSE normalized
  IN  IF result = 0 THEN 0 ELSE result

\* mutant: the offset is left out
randomAngle_NoOffset(spread, offset, draw) == normalizeAngle(draw * spread)
\* normalizeAngle(offset + Math.random() * spread), times RandDen
randomAngle(spread, offset, draw) == normalizeAngle(offset * RandDen + draw * spread)

\* mutant: the spread is written the other way round, { ...override, ...base }
mergeParticleConfig_BaseWins(base, override) ==
  IF override = Undefined THEN base
  ELSE LET o == override[1]
       IN  Object([f \in (DOMAIN base.values) \cup ((DOMAIN o.values) \ base.undef) |->
                     IF f \in DOMAIN base.values THEN base.values[f] ELSE o.values[f]],
                  base.undef \cup (o.undef \ DOMAIN base.values))
\* {...base, ...override}; base alone when override is undefined.  The spread
\* copies every own key of override, a key whose value is undefined included.
mergeParticleConfig(base, override) ==
  IF override = Undefined THEN base
  ELSE LET o == override[1]
       IN  Object([f \in ((DOMAIN base.values) \ o.undef) \cup (DOMAIN o.values) |->
                     IF f \in DOMAIN o.values THEN o.values[f] ELSE base.values[f]],
                  (base.undef \ DOMAIN o.values) \cup o.undef)

\* The value returned is a record of the fields that have a value: a field that
\* is undefined in the resolved object is not in its domain.
resolveParticleConfig(preset, config) ==
  LET resolved0 == Object(DEFAULT_PARTICLE_CONFIG, {})
      resolved1 == IF preset # Undefined
                   THEN mergeParticleConfig(resolved0, getParticlePreset(preset[1]))
                   ELSE resolved0
      resolved == IF config # Undefined THEN mergeParticleConfig(resolved1, config)
                  ELSE resolved1
  IN  resolved.values

\* -------------------------------------------------------------------- state
VARIABLES
  maxClicksOpt,      \* option maxClicks
  externalClicks,    \* option clicks (controlled mode when supplied)
  externalDisabled,  \* option disabled
  showParticles,     \* option showParticles, defaulted
  particlePreset,    \* option particlePreset
  particleConfig,    \* option particleConfig
  internalClicks,    \* useState(0): the stored count
  renderedClicks,    \* internalClicks as read by the render whose handlers are installed
  particles,         \* useState([]): the active set, in insertion order
  timeoutRefs,       \* useRef(new Set()): handles of the tracked timeouts
  timers,            \* the host's pending timeouts
  nextTimeoutId,     \* the handle the next setTimeout returns
  now,               \* Date.now(), relative to the reading at mount
  rng,               \* the state of Math.random()
  mounted,           \* FALSE once the effect cleanup has run
  burstSeq,          \* history: accepted clicks so far
  onClickCalls,      \* history: invocations of onClick so far
  lastEvent,         \* history: what the latest step handled, and the callback it invoked
  call,              \* the utility function applied last, with its arguments
  result,            \* the value that application returned
  particleProps,     \* Particle component: its props
  isAnimating,       \* Particle component: useState(false)
  frame,             \* Particle component: the animation frame its effect requests
  particleMounted    \* Particle component: FALSE once it is unmounted

props == <<maxClicksOpt, externalClicks, externalDisabled, showParticles,
           particlePreset, particleConfig>>
hook == <<internalClicks, renderedClicks, particles, timeoutRefs>>
host == <<timers, nextTimeoutId, now, rng, mounted>>
util == <<call, result>>
view == <<particleProps, isAnimating, frame, particleMounted>>
vars == <<props, hook, host, burstSeq, onClickCalls, lastEvent, util, view>>

\* the (particlePreset, particleConfig) pairs a parent supplies
ConfigChoices ==
  { <<Some("confetti"), Some(Object([count |-> 1, distance |-> Num(50)], {}))>>,
    <<Some("burst"), Some(Object([count |-> 2], {}))>>,
    <<Undefined, Some(Object([count |-> 0], {}))>> }

\* the keydown events dispatched: <<key, shiftKey>>
KeyEvents == {<<"Enter", TRUE>>, <<"Enter", FALSE>>, <<" ", TRUE>>}

NoCallback == [name |-> "none", arg |-> 0]
Event(kind, key, shiftKey, prevented, callback) ==
  [kind |-> kind, key |-> key, shiftKey |-> shiftKey,
   defaultPrevented |-> prevented, callback |-> callback]
\* the latest step handled no DOM event
NoEvent == Event("none", "", FALSE, FALSE, NoCallback)

\* ------------------------------------------------------- derived render values
\* mutant: the default of an earlier generation of the hook
maxClicks_OldDefault == Coalesce(maxClicksOpt, 14)
maxClicks == Coalesce(maxClicksOpt, LIKE_BUTTON_DEFAULTS.maxClicks)
clicks == Coalesce(externalClicks, renderedClicks)
\* mutant: the comparison is strict
isMaxed_Strict == clicks > maxClicks
isMaxed == clicks >= maxClicks
disabled == Coalesce(externalDisabled, isMaxed)

\* A number that is the quotient of two integers is kept as the pair of them.
Ratio(num, den) == [num |-> num, den |-> den]
RatioEq(a, b) == a.num * b.den = b.num * a.den
RatioLeq(a, b) == a.num * b.den <= b.num * a.den
\* (clicks / maxClicks) * 100
fillPercentage == Ratio(clicks * 100, maxClicks)

\* ------------------------------------------------------ LikeButton component
\* the values of the minFillPercent prop that are tried
MinFillInputs == {0 - 10, 0, 20, MAX_FILL_HEIGHT, 100}
\* mutant: the prop is used as it comes
clampedMinFill_Unclamped(minFillPercent) == minFillPercent
\* Math.max(0, Math.min(MAX_FILL_HEIGHT, minFillPercent))
clampedMinFill(minFillPercent) ==
  LET lower == IF minFillPercent < MAX_FILL_HEIGHT THEN minFillPercent
               ELSE MAX_FILL_HEIGHT
  IN  IF lower > 0 THEN lower ELSE 0
\* the height of the liquid fill container, in percent
fillHeight(minFillPercent) ==
  IF isMaxed THEN Ratio(100, 1)
  ELSE LET m == clampedMinFill(minFillPercent)
       IN  Ratio(m * 100 * fillPercentage.den
                   + fillPercentage.num * (MAX_FILL_HEIGHT - m),
                 100 * fillPercentage.den)

\* ------------------------------------------------------------ spawnParticles
\* `${id}-${i}`: a decimal clock reading, a dash, a decimal index; two ids are
\* equal exactly when both numbers are
ParticleId(id, i) == <<id, i>>

\* the j-th Math.random() from generator state seed
Draw(seed, j) == (seed + j) % RandDen

\* colors[Math.floor(Math.random() * colors.length)]
PickColor(colors, draw) == colors[((draw * Len(colors)) \div RandDen) + 1]

\* the particle the map callback returns for index i
NewParticle(config, id, seed, burst, i) ==
  LET distanceRange == normalizeRange(config.distance)
      sizeRange == normalizeRange(config.size)
  IN  [id |-> ParticleId(id, i),
       angle |-> randomAngle(config.spread, config.spreadOffset, Draw(seed, 4 * i)),
       distance |-> randomInRange(distanceRange, Draw(seed, 4 * i + 1)),
       scale |-> randomInRange(sizeRange, Draw(seed, 4 * i + 2)),
       color |-> PickColor(config.colors, Draw(seed, 4 * i + 3)),
       shape |-> config.shape,
       speed |-> config.speed,
       easing |-> config.easing,
       fadeOut |-> config.fadeOut,
       burst |-> burst]     \* history: the accepted click that spawned it

\* mutant: the array is one element short
NewParticles_OneShort(config, id, seed, burst) ==
  [k \in 1..(config.count - 1) |-> NewParticle(config, id, seed, burst, k - 1)]
\* Array.from({ length: config.count }).map((_, i) => ...)
NewParticles(config, id, seed, burst) ==
  [k \in 1..config.count |-> NewParticle(config, id, seed, burst, k - 1)]

\* mutant: the new burst replaces the active set
AppendParticles_Replace(prev, newParticles) == newParticles
\* setParticles((prev) => [...prev, ...newParticles])
AppendParticles(prev, newParticles) == prev \o newParticles

cleanupDelay(config) == config.speed + PARTICLE_CLEANUP_BUFFER_MS

\* new Set(newParticles.map((p) => p.id))
idsToRemove(newParticles) == {newParticles[k].id : k \in DOMAIN newParticles}

\* setParticles((prev) => prev.filter((p) => !idsToRemove.has(p.id)))
\* mutant: the filter keeps the particles it should drop
RemoveParticles_KeepsAll(prev, ids) == prev
RemoveParticles(prev, ids) == SelectSeq(prev, LAMBDA p : p.id \notin ids)

\* mutant: the guard is missing
particlesEnabled_Always == TRUE
\* if (!showParticles) return
particlesEnabled == showParticles

spawnParticles(seed, burst) ==
  IF ~particlesEnabled
  THEN UNCHANGED <<particles, timers, timeoutRefs, nextTimeoutId, rng>>
  ELSE LET config == resolveParticleConfig(particlePreset, particleConfig)
           newParticles == NewParticles(config, now, seed, burst)
           timeoutId == nextTimeoutId
       IN  /\ particles' = AppendParticles(particles, newParticles)
           /\ timers' = timers \cup {[id |-> timeoutId,
                                       due |-> now + cleanupDelay(config),
                                       idsToRemove |-> idsToRemove(newParticles),
                                       burst |-> burst]}
           /\ timeoutRefs' = timeoutRefs \cup {timeoutId}
           /\ nextTimeoutId' = nextTimeoutId + 1
           /\ rng' = Draw(seed, 4 * config.count)

\* ------------------------------------------------------------------ handlers
\* the re-render React commits before the next event is dispatched
Commit == renderedClicks' = internalClicks'

\* mutant: the count is not incremented
newClicks_Stale == clicks
newClicks == clicks + 1

\* mutant: the internal counter is written in controlled mode too
nextInternalClicks_Always == newClicks
\* mutant: the click that reaches the maximum starts the count again
nextInternalClicks_Reset ==
  IF externalClicks # Undefined THEN internalClicks
  ELSE IF newClicks >= maxClicks THEN 0 ELSE newClicks
\* if (externalClicks === undefined) setInternalClicks(newClicks)
nextInternalClicks == IF externalClicks = Undefined THEN newClicks ELSE internalClicks

\* mutant: the callback is invoked before the particles are spawned
handleClickEffects_CallbackFirst ==
  (IF externalClicks = Undefined THEN <<"setInternalClicks">> ELSE <<>>)
    \o <<"onClick">>
    \o (IF particlesEnabled THEN <<"setParticles", "setTimeout", "timeoutRefs.add">>
        ELSE <<>>)
\* history: the calls an accepted click makes, in the order the handler makes them
handleClickEffects ==
  (IF externalClicks = Undefined THEN <<"setInternalClicks">> ELSE <<>>)
    \o (IF particlesEnabled THEN <<"setParticles", "setTimeout", "timeoutRefs.add">>
        ELSE <<>>)
    \o <<"onClick">>

handleClickBody(seed) ==
  IF disabled
  THEN /\ lastEvent' = Event("click", "", FALSE, FALSE, NoCallback) @@ [effects |-> <<>>]
       /\ UNCHANGED <<internalClicks, particles, timers, timeoutRefs, nextTimeoutId,
                      rng, burstSeq, onClickCalls>>
  ELSE /\ burstSeq < MaxAccepted
       /\ internalClicks' = nextInternalClicks
       /\ spawnParticles(seed, burstSeq + 1)
       /\ burstSeq' = burstSeq + 1
       /\ onClickCalls' = onClickCalls + 1
       /\ lastEvent' = Event("click", "", FALSE, FALSE,
                              [name |-> "onClick", arg |-> newClicks])
                         @@ [effects |-> handleClickEffects]

handleClick ==
  /\ mounted
  /\ handleClickBody(rng)
  /\ Commit
  /\ UNCHANGED <<props, now, mounted, util, view>>

\* mutant: the disabled guard is missing
rightClickCallback_NoGuard == [name |-> "onRightClick", arg |-> clicks]
\* mutant: the callback receives the incremented count
rightClickCallback_Incremented ==
  IF disabled THEN NoCallback ELSE [name |-> "onRightClick", arg |-> clicks + 1]
\* if (disabled) return; onRightClick?.(clicks, e)
rightClickCallback ==
  IF disabled THEN NoCallback ELSE [name |-> "onRightClick", arg |-> clicks]

\* mutant: preventDefault is called after the disabled guard
preventsDefault_AfterGuard == ~disabled
\* e.preventDefault() comes before if (disabled) return
preventsDefault == TRUE

handleRightClick ==
  /\ mounted
  /\ lastEvent' = Event("contextmenu", "", FALSE, preventsDefault, rightClickCallback)
  /\ UNCHANGED <<props, hook, host, burstSeq, onClickCalls, util, view>>

\* mutant: the shift key is not tested
IsShiftEnter_AnyEnter(key, shiftKey) == key = "Enter"
\* e.shiftKey && e.key === "Enter"
IsShiftEnter(key, shiftKey) == shiftKey /\ key = "Enter"

handleKeyDown(key, shiftKey) ==
  /\ mounted
  /\ lastEvent' = IF IsShiftEnter(key, shiftKey)
                  THEN Event("keydown", key, shiftKey, preventsDefault, rightClickCallback)
                  ELSE Event("keydown", key, shiftKey, FALSE, NoCallback)
  /\ UNCHANGED <<props, hook, host, burstSeq, onClickCalls, util, view>>

\* the timeout callback of spawnParticles
TimeoutFires(t) ==
  /\ t \in timers
  /\ now >= t.due
  /\ particles' = RemoveParticles(particles, t.idsToRemove)
  /\ timeoutRefs' = timeoutRefs \ {t.id}
  /\ timers' = timers \ {t}
  /\ lastEvent' = NoEvent
  /\ UNCHANGED <<props, internalClicks, renderedClicks, nextTimeoutId, now, rng,
                 mounted, burstSeq, onClickCalls, util, view>>

\* mutant: only the most recent timeout is cleared
ClearTrackedTimeouts_LastOnly ==
  {t \in timers : t.id \notin timeoutRefs \/ t.id # nextTimeoutId - 1}
\* for (const timeoutId of timeoutRefs.current) clearTimeout(timeoutId): what stays pending
ClearTrackedTimeouts == {t \in timers : t.id \notin timeoutRefs}

\* the cleanup of the mount effect
Unmount ==
  /\ mounted
  /\ mounted' = FALSE
  /\ timers' = ClearTrackedTimeouts
  /\ lastEvent' = NoEvent
  /\ UNCHANGED <<props, hook, nextTimeoutId, now, rng, burstSeq, onClickCalls, util, view>>

\* ------------------------------------------------------------- environment
\* The clock advances.  A reading matters only against the readings of the bursts
\* still in the active set and the due times of the pending timeouts, so the
\* clock is advanced only while a timeout is pending: up to MaxTicks readings,
\* and past them for as long as a pending timeout is not yet due, so the bound
\* never keeps a timeout from becoming due.  A due timeout need not fire at once:
\* events may be handled first, and due timeouts fire in any order.
Tick ==
  /\ timers # {}
  /\ now < MaxTicks * TimeStep \/ \E t \in timers : now < t.due
  /\ now' = now + TimeStep
  /\ lastEvent' = NoEvent
  /\ UNCHANGED <<props, hook, timers, nextTimeoutId, rng, mounted, burstSeq,
                 onClickCalls, util, view>>

\* the parent renders the button with another preset and config
SetParticleProps(c) ==
  /\ mounted
  /\ c # <<particlePreset, particleConfig>>
  /\ particlePreset' = c[1]
  /\ particleConfig' = c[2]
  /\ lastEvent' = NoEvent
  /\ UNCHANGED <<maxClicksOpt, externalClicks, externalDisabled, showParticles,
                 hook, host, burstSeq, onClickCalls, util, view>>

\* the parent of a controlled button renders it with another count
SetClicksProp(v) ==
  /\ mounted
  /\ externalClicks # Undefined
  /\ externalClicks # Some(v)
  /\ externalClicks' = Some(v)
  /\ lastEvent' = NoEvent
  /\ UNCHANGED <<maxClicksOpt, externalDisabled, showParticles, particlePreset,
                 particleConfig, hook, host, burstSeq, onClickCalls, util, view>>

\* no utility function has been applied
NoCall == [fn |-> "none"]

\* the hook after its first render
FirstRender ==
  /\ internalClicks = 0
  /\ renderedClicks = 0
  /\ particles = <<>>
  /\ timeoutRefs = {}
  /\ timers = {}
  /\ nextTimeoutId = 1
  /\ now = 0
  /\ rng = 0
  /\ mounted = TRUE
  /\ burstSeq = 0
  /\ onClickCalls = 0
  /\ lastEvent = NoEvent

\* the Particle component is followed on its own: here none is rendered
NoParticle ==
  /\ particleProps = [angle |-> 0, distance |-> 0, scale |-> 0, speed |-> 0,
                      easing |-> "", fadeOut |-> FALSE]
  /\ isAnimating = FALSE
  /\ frame = "unrequested"
  /\ particleMounted = FALSE

Init ==
  /\ maxClicksOpt \in {Undefined} \cup {Some(n) : n \in 2..MaxMaxClicks}
  /\ externalClicks \in {Undefined} \cup {Some(n) : n \in 0..MaxMaxClicks}
  /\ externalDisabled \in {Undefined, Some(FALSE), Some(TRUE)}
  /\ showParticles \in BOOLEAN
  /\ \E c \in ConfigChoices : particlePreset = c[1] /\ particleConfig = c[2]
  /\ FirstRender
  /\ call = NoCall
  /\ result = Undefined
  /\ NoParticle

Next ==
  \/ handleClick
  \/ handleRightClick
  \/ \E e \in KeyEvents : handleKeyDown(e[1], e[2])
  \/ \E t \in timers : TimeoutFires(t)
  \/ Unmount
  \/ Tick
  \/ \E c \in ConfigChoices : SetParticleProps(c)
  \/ \E v \in 0..MaxMaxClicks : SetClicksProp(v)

Spec == Init /\ [][Next]_vars

\* ------------------------------------------------- the utilities on their own
\* the preset arguments tried: none, the five names, and a name the table lacks
PresetInputs ==
  {Undefined} \cup {Some(name) : name \in DOMAIN PARTICLE_PRESETS} \cup {Some("rainbow")}

\* the values an override may give to the fields it sets
OverrideValues ==
  [count |-> 5, shape |-> "star", distance |-> Range(90, 95), colors |-> <<"#0000FF">>]

\* the config arguments tried: none, and every object that gives each field of
\* OverrideValues its value, the value undefined, or leaves it out
ConfigInputs ==
  {Undefined} \cup
  { Some(Object([f \in set |-> OverrideValues[f]], undef)) :
      <<set, undef>> \in { su \in (SUBSET DOMAIN OverrideValues) \X
                                  (SUBSET DOMAIN OverrideValues) :
                             su[1] \cap su[2] = {} } }

\* Each run of the utilities applies one function once, to arguments of its choice.
CallResolveParticleConfig(preset, config) ==
  /\ call = NoCall
  /\ call' = [fn |-> "resolveParticleConfig", preset |-> preset, config |-> config]
  /\ result' = Some(resolveParticleConfig(preset, config))
  /\ UNCHANGED <<props, hook, host, burstSeq, onClickCalls, lastEvent, view>>

\* the whole degrees normalizeAngle is applied to
DegreeInputs == (0 - MaxDegree)..MaxDegree

CallNormalizeAngle(angle) ==
  /\ call = NoCall
  /\ call' = [fn |-> "normalizeAngle", angle |-> angle]
  /\ result' = Some(normalizeAngle(angle * RandDen))
  /\ UNCHANGED <<props, hook, host, burstSeq, onClickCalls, lastEvent, view>>

\* the spreads and offsets, in whole degrees, randomAngle is applied to
SpreadInputs == {0, 1, 90, 120, 180, 359, 360}
OffsetInputs == {0 - 450, 0 - 360, 0 - 90, 0 - 1, 0, 45, 270, 359, 360, 725}

\* draw is what Math.random() returns, times RandDen
CallRandomAngle(spread, offset, draw) ==
  /\ call = NoCall
  /\ call' = [fn |-> "randomAngle", spread |-> spread, offset |-> offset, draw |-> draw]
  /\ result' = Some(randomAngle(spread, offset, draw))
  /\ UNCHANGED <<props, hook, host, burstSeq, onClickCalls, lastEvent, view>>

\* a button rendered with no option, before any event
ButtonAtRest ==
  /\ maxClicksOpt = Undefined
  /\ externalClicks = Undefined
  /\ externalDisabled = Undefined
  /\ showParticles = TRUE
  /\ particlePreset = Undefined
  /\ particleConfig = Undefined
  /\ FirstRender

UtilInit ==
  /\ ButtonAtRest
  /\ call = NoCall
  /\ result = Undefined
  /\ NoParticle

UtilNext ==
  \/ \E preset \in PresetInputs, config \in ConfigInputs :
       CallResolveParticleConfig(preset, config)
  \/ \E angle \in DegreeInputs : CallNormalizeAngle(angle)
  \/ \E spread \in SpreadInputs, offset \in OffsetInputs, draw \in 0..(RandDen - 1) :
       CallRandomAngle(spread, offset, draw)

UtilSpec == UtilInit /\ [][UtilNext]_vars

\* ------------------------------------------------- the Particle component
\* the props a Particle is rendered with: angle in degrees, scale in tenths
ParticleInputs ==
  [angle : {0, 45, 90, 180, 270}, distance : {50, 80, 120}, scale : {10, 15},
   speed : {400, 800}, easing : {"ease-out"}, fadeOut : BOOLEAN]

\* Math.cos((angle * Math.PI) / 180) * distance and its sine counterpart, unevaluated
PolarX(angle, distance) == [fn |-> "cos", angle |-> angle, distance |-> distance]
PolarY(angle, distance) == [fn |-> "sin", angle |-> angle, distance |-> distance]

\* what useParticle returns in the current render
useParticle ==
  LET x == PolarX(particleProps.angle, particleProps.distance)
      y == PolarY(particleProps.angle, particleProps.distance)
  IN  [isAnimating |-> isAnimating,
       x |-> x,
       y |-> y,
       transform |-> IF isAnimating
                     THEN [translate |-> <<x, y>>, scale |-> particleProps.scale]
                     ELSE [translate |-> <<0, 0>>, scale |-> 0],
       opacity |-> IF isAnimating THEN 0 ELSE 1,
       speed |-> particleProps.speed,
       easing |-> particleProps.easing,
       fadeOut |-> particleProps.fadeOut]

\* useEffect, after the first commit: requestAnimationFrame(() => setIsAnimating(true))
RunEffect ==
  /\ particleMounted
  /\ frame = "unrequested"
  /\ frame' = "pending"
  /\ UNCHANGED <<props, hook, host, burstSeq, onClickCalls, lastEvent, util,
                 particleProps, isAnimating, particleMounted>>

\* the host runs the frame callback
FrameCallback ==
  /\ frame = "pending"
  /\ frame' = "run"
  /\ isAnimating' = TRUE
  /\ UNCHANGED <<props, hook, host, burstSeq, onClickCalls, lastEvent, util,
                 particleProps, particleMounted>>

\* mutant: the effect returns no cleanup
cancelAnimationFrame_Missing == frame
\* the cleanup of the effect, cancelAnimationFrame(timer): a frame still pending
\* is cancelled, one that has run or was never requested is left as it is
cancelAnimationFrame == IF frame = "pending" THEN "cancelled" ELSE frame

\* the Particle is removed from the active set of its button
UnmountParticle ==
  /\ particleMounted
  /\ particleMounted' = FALSE
  /\ frame' = cancelAnimationFrame
  /\ UNCHANGED <<props, hook, host, burstSeq, onClickCalls, lastEvent, util,
                 particleProps, isAnimating>>

ParticleInit ==
  /\ ButtonAtRest
  /\ call = NoCall
  /\ result = Undefined
  /\ particleProps \in ParticleInputs
  /\ isAnimating = FALSE
  /\ frame = "unrequested"
  /\ particleMounted = TRUE

ParticleNext ==
  \/ RunEffect
  \/ FrameCallback
  \/ UnmountParticle

ParticleSpec == ParticleInit /\ [][ParticleNext]_vars

\* ------------------------------------------------ clicks inside one batch
\* React commits the updates of a handler when the outermost batch ends.  A click
\* dispatched while a batch is open (element.click() from a handler of the
\* parent, several events inside one act()) is handled by the closure of the
\* last committed render: clicks and disabled are those of renderedClicks.
handleClickInBatch ==
  /\ mounted
  /\ handleClickBody(rng)
  /\ UNCHANGED <<props, renderedClicks, now, mounted, util, view>>

\* the batch ends: the re-render with the stored count is committed
FlushUpdates ==
  /\ mounted
  /\ renderedClicks # internalClicks
  /\ renderedClicks' = internalClicks
  /\ lastEvent' = NoEvent
  /\ UNCHANGED <<props, internalClicks, particles, timeoutRefs, host, burstSeq,
                 onClickCalls, util, view>>

BatchNext ==
  \/ Next
  \/ handleClickInBatch
  \/ FlushUpdates

BatchSpec == Init /\ [][BatchNext]_vars

\* The event loop of the host: the clock goes on while a timeout is pending, and
\* a timeout that is due and not cleared has its callback run.
FairSpec ==
  /\ Spec
  /\ WF_vars(Tick)
  /\ WF_vars(\E t \in timers : TimeoutFires(t))

\* ============================================================== properties
Uncontrolled == externalClicks = Undefined
NoDisabledFlag == externalDisabled = Undefined
\* the step is a click that was accepted
AcceptedClick == burstSeq' = burstSeq + 1
\* the step handled a DOM event of this kind
Handled(kind) == lastEvent'.kind = kind
\* the state the handlers may write, and the invocation count of onClick
hookState == <<internalClicks, renderedClicks, particles, timeoutRefs, timers, nextTimeoutId>>

\* C1: in uncontrolled mode with no explicit disabled flag the stored count never
\* exceeds maxClicks, and a click handled when the count equals maxClicks invokes
\* no callback and leaves the count as it is.
C1_CountNeverExceedsMax ==
  /\ [](Uncontrolled /\ NoDisabledFlag => internalClicks <= maxClicks)
  /\ [][(Uncontrolled /\ NoDisabledFlag /\ internalClicks = maxClicks /\ Handled("click"))
          => /\ lastEvent'.callback = NoCallback
             /\ UNCHANGED <<internalClicks, onClickCalls>>]_vars

C1_Witness ==
  /\ Uncontrolled /\ NoDisabledFlag
  /\ maxClicks = 2 /\ internalClicks = 2
  /\ lastEvent.kind = "click" /\ lastEvent.callback = NoCallback

\* C2: the derived disabled state is true exactly when the explicit flag is true
\* or clicks >= maxClicks, whatever the explicit flag is (absent, false, true).
C2_DisabledIsFlagOrMaxed ==
  disabled = ((externalDisabled = Some(TRUE)) \/ clicks >= maxClicks)

\* C3: while the button is disabled, a click, a right-click and a key event invoke
\* no callback and leave the count, the active set and the timers unchanged.
C3_DisabledIsSilent ==
  [][(disabled /\ (Handled("click") \/ Handled("contextmenu") \/ Handled("keydown")))
      => /\ lastEvent'.callback = NoCallback
         /\ UNCHANGED <<hookState, onClickCalls, burstSeq>>]_vars

C3_Witness ==
  /\ disabled
  /\ lastEvent.kind = "keydown" /\ lastEvent.shiftKey /\ lastEvent.key = "Enter"
  /\ lastEvent.callback = NoCallback
  /\ particles # <<>> /\ timers # {}

C5_ControlledClickKeepsCount ==
  /\ [][(~Uncontrolled /\ AcceptedClick)
          => /\ lastEvent'.callback = [name |-> "onClick", arg |-> externalClicks[1] + 1]
             /\ internalClicks' = internalClicks
             /\ clicks' = clicks /\ isMaxed' = isMaxed /\ disabled' = disabled]_vars
  /\ [](~Uncontrolled
          => /\ internalClicks = 0
             /\ clicks = externalClicks[1]
             /\ isMaxed = (externalClicks[1] >= maxClicks)
             /\ disabled = IF externalDisabled = Undefined
                            THEN externalClicks[1] >= maxClicks
                            ELSE externalDisabled[1])

C5_Witness ==
  /\ ~Uncontrolled /\ externalClicks = Some(1)
  /\ lastEvent.callback = [name |-> "onClick", arg |-> 2]
  /\ internalClicks = 0 /\ clicks = 1 /\ ~isMaxed

\* C6: a right-click never changes the count, the active set or the timers; when
\* the button is not disabled its callback receives the count current at the call.
C6_RightClickChangesNothing ==
  /\ [][Handled("contextmenu")
          => /\ UNCHANGED <<props, hookState, onClickCalls, burstSeq>>
             /\ ~disabled => lastEvent'.callback = [name |-> "onRightClick", arg |-> clicks]]_vars
  /\ []((Uncontrolled /\ lastEvent.kind = "contextmenu"
           /\ lastEvent.callback.name = "onRightClick")
          => lastEvent.callback.arg = burstSeq)

C6_Witness ==
  /\ Uncontrolled
  /\ lastEvent.kind = "contextmenu"
  /\ lastEvent.callback = [name |-> "onRightClick", arg |-> 1]
  /\ internalClicks = 1 /\ particles # <<>>

\* C7: a key event acts as a right-click exactly when it is Shift+Enter (same
\* callback, same current count, same disabled guard); any other key event invokes
\* no callback; no key event changes the state.
C7_ShiftEnterIsRightClick ==
  [][Handled("keydown")
      => /\ UNCHANGED <<props, hookState, onClickCalls, burstSeq>>
         /\ lastEvent'.callback =
              IF lastEvent'.shiftKey /\ lastEvent'.key = "Enter" /\ ~disabled
              THEN [name |-> "onRightClick", arg |-> clicks]
              ELSE NoCallback]_vars

C7_Witness ==
  /\ lastEvent.kind = "keydown" /\ lastEvent.shiftKey /\ lastEvent.key = "Enter"
  /\ lastEvent.callback = [name |-> "onRightClick", arg |-> 1]

C7_WitnessEnterAlone ==
  /\ lastEvent.kind = "keydown" /\ ~lastEvent.shiftKey /\ lastEvent.key = "Enter"
  /\ ~disabled /\ lastEvent.callback = NoCallback

\* C8: with particles enabled an accepted click adds exactly count particles of
\* that click to the active set, count being that of the resolved configuration;
\* count = 0 adds none.
C8_ClickAddsCountParticles ==
  [][(AcceptedClick /\ showParticles)
      => LET k == resolveParticleConfig(particlePreset, particleConfig).count
         IN  /\ Len(particles') = Len(particles) + k
             /\ \A j \in (Len(particles) + 1)..Len(particles') :
                   particles'[j].burst = burstSeq']_vars

C8_Witness ==
  /\ showParticles
  /\ lastEvent.callback.name = "onClick"
  /\ resolveParticleConfig(particlePreset, particleConfig).count = 2
  /\ Len(particles) = 3

C8_WitnessZero ==
  /\ showParticles
  /\ lastEvent.callback.name = "onClick"
  /\ resolveParticleConfig(particlePreset, particleConfig).count = 0
  /\ burstSeq = 1 /\ particles = <<>> /\ timers # {}

\* the particles of the active set spawned by accepted click b
OfBurst(b) == {j \in DOMAIN particles : particles[j].burst = b}

\* C9: spawning a burst appends: every particle present before the click is still
\* there, in place, after it; so while no removal timer has fired, the active set
\* holds the particles of every burst.
C9_BurstsAccumulate ==
  /\ [][AcceptedClick
          => /\ Len(particles') >= Len(particles)
             /\ SubSeq(particles', 1, Len(particles)) = particles]_vars
  /\ []((showParticles /\ mounted /\ Cardinality(timers) = burstSeq)
          => \A t \in timers : Cardinality(OfBurst(t.burst)) = Cardinality(t.idsToRemove))

C9_Witness ==
  /\ showParticles /\ mounted
  /\ burstSeq = 2 /\ Cardinality(timers) = 2
  /\ Cardinality(OfBurst(1)) = 1 /\ Cardinality(OfBurst(2)) = 2
  /\ Len(particles) = 3

\* C10: when the removal timer of a burst fires, exactly the particles spawned by
\* that click leave the active set and every particle of another burst stays.
C10_TimerRemovesItsBurstOnly ==
  [][\A t \in timers :
       TimeoutFires(t)
         => particles' = SelectSeq(particles, LAMBDA p : p.burst # t.burst)]_vars

\* C11: no two particles of the active set share an id.
C11_IdsUnique ==
  \A j, k \in DOMAIN particles : j # k => particles[j].id # particles[k].id

\* C12: after the hook is torn down no removal timer is pending, so no removal
\* callback runs and the active set is not written again.
C12_NoTimerAfterTeardown ==
  ~mounted => timers = {}

C12_Witness ==
  /\ ~mounted
  /\ burstSeq = 2 /\ Cardinality(timeoutRefs) = 2
  /\ Len(particles) = 3

\* C13: a particle spawned at time t by a click whose resolved speed is s is in
\* the active set at every time before t + s + 100 while the hook is mounted, its
\* removal timer is set for t + s + 100 whatever the later preset and config, and
\* the particle is gone once that timer has fired.
C13_ParticleLivesItsDelay ==
  /\ [](mounted =>
          \A t \in timers :
            now < t.due => Cardinality(OfBurst(t.burst)) = Cardinality(t.idsToRemove))
  /\ [](\A j \in DOMAIN particles :
          \A t \in timers :
            t.burst = particles[j].burst
              => t.due = particles[j].id[1] + particles[j].speed + 100)
  /\ [][\A t \in timers : TimeoutFires(t) => \A j \in DOMAIN particles' :
                                                 particles'[j].burst # t.burst]_vars

\* C14: while the hook stays mounted and due timers are run, the clicks having
\* stopped, the active set ends up empty for good with no timer pending and no
\* timer id tracked.
C14_EveryParticleIsRemoved ==
  <>[](mounted => particles = <<>> /\ timers = {} /\ timeoutRefs = {})

C14_Witness ==
  /\ mounted
  /\ burstSeq = 2 /\ nextTimeoutId = 3 /\ rng # 0
  /\ particles = <<>> /\ timers = {} /\ timeoutRefs = {}

\* the ten fields of a particle config
Fields == DOMAIN DEFAULT_PARTICLE_CONFIG
Resolved == call.fn = "resolveParticleConfig"
\* the layer below the override: the named preset, or the defaults
Lower(preset) ==
  IF preset # Undefined /\ preset[1] \in DOMAIN PARTICLE_PRESETS
  THEN PARTICLE_PRESETS[preset[1]]
  ELSE DEFAULT_PARTICLE_CONFIG
Given(config) == IF config = Undefined THEN <<>> ELSE config[1].values
GivenUndefined(config) == IF config = Undefined THEN {} ELSE config[1].undef

\* C15: each field of the resolved config is the override's value when the
\* override gives the field a value, else the named preset's value, else the
\* default's; a range or colour list of the override is taken whole; with neither
\* preset nor override the result is the default config.  (Fields the override
\* sets to undefined are the matter of C16.)
C15_OverrideThenPresetThenDefault ==
  Resolved =>
    /\ \A f \in Fields \ GivenUndefined(call.config) :
         /\ f \in DOMAIN result[1]
         /\ result[1][f] = IF f \in DOMAIN Given(call.config)
                            THEN Given(call.config)[f]
                            ELSE Lower(call.preset)[f]
    /\ (call.preset = Undefined /\ call.config = Undefined)
         => result[1] = DEFAULT_PARTICLE_CONFIG

C15_Witness ==
  /\ Resolved
  /\ call.preset = Some("burst")
  /\ call.config = Some(Object([count |-> 5, distance |-> Range(90, 95)], {}))
  /\ result[1].count = 5 /\ result[1].shape = "heart" /\ result[1].speed = 400
  /\ result[1].distance = Range(90, 95)

\* C16: an override field set to undefined is treated like an omitted one: the
\* resolved config has all ten fields, and such a field keeps the value of the
\* preset or the default.
C16_UndefinedIsOmitted ==
  Resolved =>
    /\ DOMAIN result[1] = Fields
    /\ \A f \in GivenUndefined(call.config) :
         /\ f \in DOMAIN result[1]
         /\ result[1][f] = Lower(call.preset)[f]

\* C17: with no override each preset name resolves to the values of its row of
\* the table, and the table has the five names and no other.
C17_PresetTable ==
  /\ DOMAIN PARTICLE_PRESETS = {"burst", "fountain", "confetti", "gentle", "fireworks"}
  /\ (Resolved /\ call.config = Undefined /\ call.preset # Undefined) =>
        LET r == result[1]
            name == call.preset[1]
        IN  /\ name = "burst" =>
                 r.count = 12 /\ r.spread = 360 /\ r.speed = 400 /\ r.shape = "heart"
            /\ name = "fountain" =>
                 /\ r.count = 10 /\ r.spread = 120 /\ r.spreadOffset = -90
                 /\ r.speed = 600 /\ r.shape = "circle"
            /\ name = "confetti" =>
                 /\ r.count = 15 /\ r.spread = 360 /\ r.speed = 800
                 /\ r.shape = "square" /\ Len(r.colors) = 6
            /\ name = "gentle" =>
                 /\ r.count = 6 /\ r.spread = 180 /\ r.spreadOffset = -90
                 /\ r.speed = 700 /\ r.shape = "heart"
            /\ name = "fireworks" =>
                 r.count = 16 /\ r.spread = 360 /\ r.speed = 500 /\ r.shape = "sparkle"

C17_Witness ==
  /\ Resolved
  /\ call.preset = Some("confetti") /\ call.config = Undefined
  /\ result[1].count = 15 /\ Len(result[1].colors) = 6 /\ result[1].shape = "square"

\* C18: fillPercentage is clicks / maxClicks x 100, it lies in [0, 100] in every
\* reachable state, controlled or not, and it is 100 when clicks = maxClicks.
C18_FillPercentageInRange ==
  /\ fillPercentage.num * maxClicks = clicks * 100 * fillPercentage.den
  /\ RatioLeq(Ratio(0, 1), fillPercentage)
  /\ RatioLeq(fillPercentage, Ratio(100, 1))
  /\ clicks = maxClicks => RatioEq(fillPercentage, Ratio(100, 1))

\* C19: whatever minFillPercent is, the displayed fill height is 100% exactly when
\* the button is maxed; when it is not maxed the height is
\* m + (clicks / maxClicks) x (85 - m) with m the prop clamped to [0, 85], which
\* is at most 85%.
C19_FillHeight ==
  \A minFillPercent \in MinFillInputs :
    LET h == fillHeight(minFillPercent)
        m == IF minFillPercent < 0 THEN 0
             ELSE IF minFillPercent > 85 THEN 85 ELSE minFillPercent
    IN  /\ RatioEq(h, Ratio(100, 1)) <=> isMaxed
        /\ ~isMaxed =>
             /\ RatioEq(h, Ratio(m * maxClicks + clicks * (85 - m), maxClicks))
             /\ RatioLeq(h, Ratio(85, 1))

C19_Witness ==
  /\ Uncontrolled /\ maxClicks = 2 /\ clicks = 1 /\ burstSeq = 1 /\ ~isMaxed
  /\ RatioEq(fillHeight(100), Ratio(85, 1))
  /\ RatioEq(fillHeight(20), Ratio(105, 2))
  /\ RatioEq(fillHeight(0 - 10), Ratio(85, 2))

\* C20: in uncontrolled mode with no explicit disabled flag the stored count never
\* decreases, and a maxed button stays maxed.
C20_MaxedIsTerminal ==
  [][(Uncontrolled /\ NoDisabledFlag)
      => /\ internalClicks' >= internalClicks
         /\ isMaxed => isMaxed']_vars

C20_Witness ==
  /\ Uncontrolled /\ NoDisabledFlag
  /\ maxClicks = 2 /\ internalClicks = 2 /\ isMaxed
  /\ lastEvent.kind = "keydown" /\ lastEvent.shiftKey
  /\ timers = {} /\ nextTimeoutId = 3

C22_NoParticlesWhenDisabled ==
  /\ [](~showParticles => particles = <<>> /\ timers = {} /\ timeoutRefs = {})
  /\ [][(~showParticles /\ AcceptedClick)
         => /\ onClickCalls' = onClickCalls + 1
            /\ lastEvent'.callback = [name |-> "onClick", arg |-> clicks + 1]
            /\ Uncontrolled => internalClicks' = internalClicks + 1]_vars

C22_Witness ==
  /\ ~showParticles /\ Uncontrolled
  /\ internalClicks = 2 /\ onClickCalls = 2 /\ burstSeq = 2
  /\ particles = <<>> /\ timers = {} /\ nextTimeoutId = 1

\* the smallest and the largest value of a number-or-range field
Least(value) == IF value.type = "number" THEN value.value ELSE value.min
Most(value) == IF value.type = "number" THEN value.value ELSE value.max

\* C23: every particle of the active set has an angle in [0, 360); and a particle
\* added by a click has a distance within the resolved distance range, a scale
\* within the resolved size range (a scalar v being the range [v, v]), a colour
\* of the resolved colours list, and the resolved shape, speed, easing and
\* fadeOut of that click.
C23_ParticlesWithinConfig ==
  /\ [](\A k \in DOMAIN particles :
          particles[k].angle >= 0 /\ particles[k].angle < 360 * RandDen)
  /\ [][AcceptedClick =>
          LET config == resolveParticleConfig(particlePreset, particleConfig)
          IN  \A k \in (Len(particles) + 1)..Len(particles') :
                LET p == particles'[k]
                IN  /\ p.angle >= 0 /\ p.angle < 360 * RandDen
                    /\ p.distance >= Least(config.distance) * RandDen
                    /\ p.distance <= Most(config.distance) * RandDen
                    /\ p.scale >= Least(config.size) * RandDen
                    /\ p.scale <= Most(config.size) * RandDen
                    /\ \E c \in DOMAIN config.colors : p.color = config.colors[c]
                    /\ p.shape = config.shape /\ p.speed = config.speed
                    /\ p.easing = config.easing /\ p.fadeOut = config.fadeOut]_vars

C23_Witness ==
  /\ Len(particles) = 3
  /\ particles[1].distance = 50 * RandDen /\ particles[1].shape = "square"
  /\ \E k \in DOMAIN particles :
       /\ particles[k].shape = "heart" /\ particles[k].speed = 400
       /\ particles[k].distance > 80 * RandDen
       /\ particles[k].distance < 120 * RandDen
       /\ particles[k].color = "#F59E0B"

\* C24: for every whole degree a, negative, zero or above 360, normalizeAngle(a)
\* is in [0, 360), is the same for a + 360k for every whole k, and is a fixed
\* point of normalizeAngle; a multiple of 360 of either sign gives 0.
C24_NormalizeAngle ==
  call.fn = "normalizeAngle" =>
    LET a == call.angle
        r == result[1]
    IN  /\ r >= 0 /\ r < 360 * RandDen
        /\ r = (a % 360) * RandDen
        /\ \A k \in (0 - 3)..3 : normalizeAngle((a + 360 * k) * RandDen) = r
        /\ normalizeAngle(r) = r
        /\ a % 360 = 0 => r = 0

C24_Witness ==
  /\ call.fn = "normalizeAngle"
  /\ call.angle = 0 - 450
  /\ result = Some(270 * RandDen)

C24_WitnessNegativeMultiple ==
  /\ call.fn = "normalizeAngle"
  /\ call.angle = 0 - 720
  /\ result = Some(0)

\* C25: for every spread in [0, 360], every offset and every draw in [0, 1),
\* randomAngle(spread, offset) is on the arc that starts at normalizeAngle(offset)
\* and extends spread degrees, wrapping past 360, its end excluded; with spread 0
\* it is normalizeAngle(offset).
C25_RandomAngleOnArc ==
  call.fn = "randomAngle" =>
    LET start == normalizeAngle(call.offset * RandDen)
        r == result[1]
        along == (r - start) % (360 * RandDen)
    IN  /\ r >= 0 /\ r < 360 * RandDen
        /\ IF call.spread = 0 THEN r = start ELSE along < call.spread * RandDen
        /\ along = call.draw * call.spread

C25_Witness ==
  /\ call.fn = "randomAngle"
  /\ call.spread = 120 /\ call.offset = 359 /\ call.draw = RandDen - 1
  /\ result[1] < 120 * RandDen

C25_WitnessNoSpread ==
  /\ call.fn = "randomAngle"
  /\ call.spread = 0 /\ call.offset = 0 - 90 /\ call.draw = 1
  /\ result = Some(270 * RandDen)

\* C26: resolving with a preset name that is none of the five raises no fault
\* and yields the config that resolving with no preset yields: the shape is the
\* default heart unless the override gives one.
C26_UnknownPresetIsNoPreset ==
  (Resolved /\ call.preset # Undefined /\ call.preset[1] \notin DOMAIN PARTICLE_PRESETS) =>
    /\ result # Undefined
    /\ result[1] = resolveParticleConfig(Undefined, call.config)
    /\ \A f \in Fields \ GivenUndefined(call.config) :
         result[1][f] = IF f \in DOMAIN Given(call.config)
                        THEN Given(call.config)[f]
                        ELSE DEFAULT_PARTICLE_CONFIG[f]
    /\ ("shape" \notin (DOMAIN Given(call.config)) \cup GivenUndefined(call.config))
         => result[1].shape = "heart"

C26_Witness ==
  /\ Resolved
  /\ call.preset = Some("rainbow")
  /\ call.config = Some(Object([count |-> 5], {}))
  /\ result[1].shape = "heart" /\ result[1].count = 5 /\ result[1].speed = 500

\* every a in seq comes before every b in seq
Before(seq, a, b) ==
  \A i, j \in DOMAIN seq : (seq[i] = a /\ seq[j] = b) => i < j
Occurs(seq, a) == \E i \in DOMAIN seq : seq[i] = a

\* C27 as stated: on an accepted click the stored count is updated, then the
\* click callback is invoked, then the particles are spawned: the callback has
\* run before a particle of the click is added or its removal timer scheduled.
C27_CallbackBeforeSpawn ==
  [][AcceptedClick =>
      LET e == lastEvent'.effects
      IN  /\ Occurs(e, "onClick")
          /\ Before(e, "setInternalClicks", "onClick")
          /\ Before(e, "onClick", "setParticles")
          /\ Before(e, "onClick", "setTimeout")]_vars

\* C27 amended: on an accepted click the stored count is updated (uncontrolled
\* mode), then the particles are spawned, added to the active set and their
\* removal timer scheduled (particles enabled), and the click callback is invoked
\* last.
C27_SpawnBeforeCallback ==
  [][AcceptedClick =>
      LET e == lastEvent'.effects
      IN  /\ Occurs(e, "onClick")
          /\ Uncontrolled => Occurs(e, "setInternalClicks")
          /\ showParticles => Occurs(e, "setParticles") /\ Occurs(e, "setTimeout")
          /\ Before(e, "setInternalClicks", "setParticles")
          /\ Before(e, "setInternalClicks", "onClick")
          /\ Before(e, "setParticles", "setTimeout")
          /\ Before(e, "setParticles", "onClick")
          /\ Before(e, "setTimeout", "onClick")]_vars

C27_Witness ==
  /\ lastEvent.kind = "click" /\ lastEvent.callback.name = "onClick"
  /\ lastEvent.effects =
       <<"setInternalClicks", "setParticles", "setTimeout", "timeoutRefs.add", "onClick">>
  /\ Len(particles) = 2 /\ Cardinality(timers) = 1

\* C28: every right-click has its default action suppressed, disabled or not; a
\* key event has its default action suppressed exactly when it is Shift+Enter,
\* disabled or not.
C28_DefaultActionSuppressed ==
  [][/\ Handled("contextmenu") => lastEvent'.defaultPrevented
     /\ Handled("keydown") =>
          (lastEvent'.defaultPrevented
             <=> (lastEvent'.shiftKey /\ lastEvent'.key = "Enter"))]_vars

C28_Witness ==
  /\ disabled
  /\ lastEvent.kind = "contextmenu" /\ lastEvent.defaultPrevented
  /\ lastEvent.callback = NoCallback

C28_WitnessShiftEnter ==
  /\ disabled
  /\ lastEvent.kind = "keydown" /\ lastEvent.key = "Enter" /\ lastEvent.shiftKey
  /\ lastEvent.defaultPrevented

\* C29: the first committed state of a particle is the rest state (isAnimating
\* false, transform at the origin with scale 0, opacity 1); isAnimating becomes
\* true only in a later step, that of the frame callback the effect requested,
\* and does not return to false while the particle is mounted; when the particle
\* is unmounted before the callback has run, the callback is cancelled and the
\* flag is never set.
C29_RestThenAnimating ==
  /\ [](frame = "unrequested" =>
          /\ ~useParticle.isAnimating
          /\ useParticle.transform = [translate |-> <<0, 0>>, scale |-> 0]
          /\ useParticle.opacity = 1)
  /\ [][(~isAnimating /\ isAnimating') => (frame = "pending" /\ frame' = "run")]_vars
  /\ [][(isAnimating /\ particleMounted') => isAnimating']_vars
  /\ [][(particleMounted /\ ~particleMounted' /\ frame = "pending")
          => frame' = "cancelled"]_vars
  /\ []((~particleMounted /\ frame # "run") => ~isAnimating)
  /\ [][~particleMounted => UNCHANGED <<isAnimating, frame>>]_vars

C29_Witness ==
  /\ ~particleMounted /\ frame = "cancelled" /\ ~isAnimating
  /\ particleProps.angle = 90

C29_WitnessAnimating ==
  /\ particleMounted /\ frame = "run" /\ isAnimating
  /\ useParticle.opacity = 0
  /\ useParticle.transform = [translate |-> <<PolarX(90, 80), PolarY(90, 80)>>, scale |-> 15]

\* C30: in uncontrolled mode with no explicit disabled flag onClick is invoked at
\* most maxClicks times and at most maxClicks bursts are spawned, also when
\* several clicks are handled against the same render.
C30_AtMostMaxClicksAccepted ==
  (Uncontrolled /\ NoDisabledFlag) => onClickCalls <= maxClicks /\ burstSeq <= maxClicks

====
